---- MODULE Spec2Model ----
(***************************************************************************)
(* Model of the YouTube summarizer backend: the summarization core         *)
(* (backend/summarizer_utils.py), the transcript fetch                     *)
(* (backend/youtube_utils.py) and the /summarize endpoint                  *)
(* (backend/main.py).                                                      *)
(*                                                                         *)
(* Strings.  A Python str is modelled as the non-empty sequence of         *)
(* space-free fragments that s.split(" ") yields: "a  b" is                *)
(* <<"a", "", "b">>, the empty string is <<"">> and " " is <<"", "">>.     *)
(* The fragments are TLA+ strings, so prefix and substring tests are       *)
(* computed on characters.  The space is the only whitespace character of  *)
(* the model.  Python's None is the empty sequence, which is no string.    *)
(***************************************************************************)
EXTENDS Integers, Sequences, FiniteSets, TLC

VARIABLES
    pc,             \* position of the request: idle, fetch, primary, fallback, done
    caller,         \* who called summarize_transcript: direct or endpoint
    request,        \* the VideoRequest of summarize_video
    video_id,       \* main.py: video_id
    fetched,        \* main.py: transcript, with the class the fetch raised
    transcript,     \* summarize_transcript: transcript (None before the call)
    model,          \* summarize_transcript: model
    max_length,     \* summarize_transcript: max_length
    min_length,     \* summarize_transcript: min_length
    calls,          \* the engine invocations made, in order
    e,              \* summarize_transcript: the exception of the primary attempt
    fallback_error, \* summarize_transcript: the exception of the fallback
    result,         \* the value summarize_transcript returned
    response,       \* the JSON body summarize_video returned
    chunk_input,    \* chunk_text: text (None before the call)
    max_tokens,     \* chunk_text: max_tokens
    chunks          \* the list chunk_text returned

vars == <<pc, caller, request, video_id, fetched, transcript, model,
          max_length, min_length, calls, e, fallback_error, result, response,
          chunk_input, max_tokens, chunks>>

chunk_vars == <<chunk_input, max_tokens, chunks>>

(***************************************************************************)
(* Bounds of the model and constants of the program.                       *)
(***************************************************************************)
\* transcripts of 0..SmallWords words are enumerated
SmallWords == 2
\* and those within Slack words of each threshold of the code
Slack == 1
\* summarizer_utils.py:157, the word ceiling of the t5 primary input
T5Ceiling == 1500
\* summarizer_utils.py:186, the word count of the fallback input
FallbackWords == 500
\* summarizer_utils.py:107, the default bounds of the summary
DefaultMaxLength == 300
DefaultMinLength == 100
\* youtube_utils.py:33, the length of a video id
VideoIdLength == 11
\* summarizer_utils.py:10, the default budget of a chunk
DefaultMaxTokens == 300
\* texts of 0..MaxChunkWords words are chunked
MaxChunkWords == 6
\* with budgets from -1 to MaxBudget words
MaxBudget == 7

None == <<>>

(***************************************************************************)
(* Python str operations on the fragment representation.                   *)
(***************************************************************************)
\* a + b
Concat(a, b) ==
    SubSeq(a, 1, Len(a) - 1) \o <<a[Len(a)] \o b[1]>> \o Tail(b)

\* s.split(): the whitespace-delimited words of s
Split(s) == SelectSeq(s, LAMBDA w : w # "")

\* " ".join(words), words being space-free
Join(words) == IF words = <<>> THEN <<"">> ELSE words

\* words[:n]
Take(words, n) == SubSeq(words, 1, IF n < Len(words) THEN n ELSE Len(words))

\* s.strip() is the empty string
IsBlank(s) == \A i \in 1..Len(s) : s[i] = ""

\* bool(s) of a str or None
Truthy(s) == s # None /\ s # <<"">>

CharPrefix(p, t) == Len(p) <= Len(t) /\ SubSeq(t, 1, Len(p)) = p

CharSuffix(p, t) ==
    Len(p) <= Len(t) /\ SubSeq(t, Len(t) - Len(p) + 1, Len(t)) = p

CharInfix(p, t) ==
    \E j \in 1..(Len(t) - Len(p) + 1) : SubSeq(t, j, j + Len(p) - 1) = p

\* s.startswith(p)
StartsWith(s, p) ==
    /\ Len(s) >= Len(p)
    /\ \A i \in 1..(Len(p) - 1) : s[i] = p[i]
    /\ CharPrefix(p[Len(p)], s[Len(p)])

\* p in s
Contains(s, p) ==
    IF Len(p) = 1
    THEN \E i \in 1..Len(s) : CharInfix(p[1], s[i])
    ELSE \E i \in 1..(Len(s) - Len(p) + 1) :
            /\ CharSuffix(p[1], s[i])
            /\ \A k \in 2..(Len(p) - 1) : s[i + k - 1] = p[k]
            /\ CharPrefix(p[Len(p)], s[i + Len(p) - 1])

(***************************************************************************)
(* The engines (transformers pipelines) and what a call of one can do.     *)
(***************************************************************************)
\* a returned Python value: type, len(), and for a list its first element
Returns(type, len, elem, keys, summary_text) ==
    [raises |-> FALSE, exc |-> "", msg |-> None, type |-> type, len |-> len,
     elem |-> elem, keys |-> keys, summary_text |-> summary_text]

\* a raised exception of class exc with str(e) = msg
Raises(exc, msg) ==
    [raises |-> TRUE, exc |-> exc, msg |-> msg, type |-> "", len |-> 0,
     elem |-> "", keys |-> {}, summary_text |-> None]

IndexOutOfRangeInSelf == <<"index", "out", "of", "range", "in", "self">>

SummaryTexts == {<<"A", "short", "summary.">>, <<"">>, None}

EngineOutcomes ==
    {Returns("list", 1, "dict", {"summary_text"}, s) : s \in SummaryTexts}
    \cup {Returns("NoneType", 0, "", {}, None),
          Returns("list", 0, "", {}, None),
          Returns("dict", 1, "", {"summary_text"}, <<"text">>),
          Returns("list", 1, "str", {}, None),
          Returns("list", 1, "dict", {"label"}, None),
          Raises("IndexError", IndexOutOfRangeInSelf),
          Raises("IndexError", <<"list", "index", "out", "of", "range">>),
          Raises("RuntimeError", <<"CUDA", "out", "of", "memory">>),
          Raises("ValueError", <<"">>)}

\* str(result) inside the f-string of safe_summarize
Repr(o) ==
    IF o.elem = "str" THEN <<"['text']">> ELSE <<"[{'label':", "'x'}]">>

\* bool(result)
ResultTruthy(o) == o.type # "NoneType" /\ o.len > 0

EmptyResultMsg == <<"Model", "returned", "empty", "result">>
InvalidStructureMsg ==
    <<"Model", "returned", "invalid", "result", "structure:", "">>
IndexRangeMsg ==
    <<"Model", "pipeline", "failed", "internally", "(index", "out", "of",
      "range)">>
IndexErrorMsg == <<"Index", "error:", "">>
ModelErrorMsg == <<"Model", "error:", "">>

\* the pair (summary_text, error) safe_summarize returns for an engine outcome
safe_summarize(o) ==
    IF o.raises
    THEN IF o.exc = "IndexError"
         THEN IF Contains(o.msg, IndexOutOfRangeInSelf)
              THEN <<None, IndexRangeMsg>>
              ELSE <<None, Concat(IndexErrorMsg, o.msg)>>
         ELSE <<None, Concat(ModelErrorMsg, o.msg)>>
    ELSE IF ~ResultTruthy(o) \/ o.type # "list" \/ o.len = 0
         THEN <<None, EmptyResultMsg>>
         ELSE IF o.elem # "dict" \/ "summary_text" \notin o.keys
              THEN <<None, Concat(InvalidStructureMsg, Repr(o))>>
              ELSE <<o.summary_text, None>>

(***************************************************************************)
(* summarize_transcript.                                                   *)
(***************************************************************************)
Bart == <<"bart">>
T5 == <<"t5">>

NoTranscriptMsg == <<"No", "transcript", "available", "to", "summarize.">>
UnknownModelMsg == <<"Unknown", "model:", "">>
SummarizePrefix == <<"summarize:", "">>
FailedAfterAllMsg ==
    <<"Failed", "to", "generate", "summary", "after", "all", "attempts:", "">>

\* the test without strip(): not transcript
NothingToSummarize_NoStrip(t) == ~Truthy(t)

\* not transcript.strip()
NothingToSummarize(t) == IsBlank(t)

\* an unrecognized selector falling back to the bart pipeline
EngineOf_DefaultBart(m) ==
    IF m = T5 THEN <<"t5_summarizer">> ELSE <<"bart_summarizer">>

\* the pipeline a selector names, None for an unrecognized selector
EngineOf(m) ==
    IF m = Bart THEN <<"bart_summarizer">>
    ELSE IF m = T5 THEN <<"t5_summarizer">>
    ELSE None

\* the primary input without the ceiling of the t5 branch
PrimaryInput_NoCeiling(t, m) ==
    IF m = Bart THEN t ELSE Concat(SummarizePrefix, t)

\* the text of the primary invocation
PrimaryInput(t, m) ==
    IF m = Bart THEN t
    ELSE IF Len(Split(t)) > T5Ceiling
         THEN Concat(SummarizePrefix, Join(Take(Split(t), T5Ceiling)))
         ELSE Concat(SummarizePrefix, t)

\* the fallback retrying on the primary input instead of the first 500 words
FallbackInput_NoTruncation(t, m) == PrimaryInput(t, m)

\* the text of the fallback invocation
FallbackInput(t, m) ==
    LET truncated == Join(Take(Split(t), FallbackWords))
    IN  IF m = Bart THEN truncated ELSE Concat(SummarizePrefix, truncated)

\* str() of the ValueError raised when the primary attempt reports an error
ModelFailed(m, error) ==
    IF m = Bart THEN Concat(<<"BART", "model", "failed:", "">>, error)
    ELSE Concat(<<"T5", "model", "failed:", "">>, error)

\* str() of the ValueError raised when the fallback attempt reports an error
FallbackFailed(m, error) ==
    IF m = Bart
    THEN Concat(<<"BART", "final", "fallback", "failed:", "">>, error)
    ELSE Concat(<<"T5", "final", "fallback", "failed:", "">>, error)

\* the failure string built from the fallback's exception
FailureMessage_FromFallback(first, second) == Concat(FailedAfterAllMsg, second)

\* the string returned when the fallback fails too
FailureMessage(first, second) == Concat(FailedAfterAllMsg, first)

\* one engine invocation through safe_summarize, as recorded in calls
Invocation(m, text, mx, mn, o) ==
    [engine |-> EngineOf(m), input_text |-> text, max_length |-> mx,
     min_length |-> mn, do_sample |-> FALSE, outcome |-> o,
     summary_text |-> safe_summarize(o)[1], error |-> safe_summarize(o)[2]]

(***************************************************************************)
(* The /summarize endpoint around it.                                      *)
(***************************************************************************)
\* str(x) inside an f-string
Str(x) == IF x = None THEN <<"None">> ELSE x

NoResponse == [error |-> None, summary |-> None, model_used |-> None]
ErrorResponse(msg) == [error |-> msg, summary |-> None, model_used |-> None]
SummaryResponse(summary, m) ==
    [error |-> None, summary |-> summary, model_used |-> m]

\* not summary or summary.startswith("Failed to generate")
SummaryFailed(summary) ==
    ~Truthy(summary) \/ StartsWith(summary, <<"Failed", "to", "generate">>)

\* main.py after summarize_transcript has returned summary
RespondToSummary(summary, m) ==
    IF SummaryFailed(summary)
    THEN ErrorResponse(Concat(<<"Summary", "generation", "failed:", "">>,
                              Str(summary)))
    ELSE SummaryResponse(summary, m)

\* summarize_transcript returns r to its caller c, who finishes with it
Return(c, m, r) ==
    /\ pc' = "done"
    /\ result' = r
    /\ response' = IF c = "endpoint" THEN RespondToSummary(r, m) ELSE response

\* summarize_transcript(t, m, mx, mn), up to its first engine invocation
Enter(c, t, m, mx, mn) ==
    /\ transcript' = t
    /\ model' = m
    /\ max_length' = mx
    /\ min_length' = mn
    /\ UNCHANGED <<calls, e, fallback_error>>
    /\ IF NothingToSummarize(t)
       THEN Return(c, m, NoTranscriptMsg)
       ELSE IF EngineOf(m) # None
            THEN pc' = "primary" /\ UNCHANGED <<result, response>>
            ELSE Return(c, m, Concat(UnknownModelMsg, m))

(***************************************************************************)
(* youtube_utils.py: extract_video_id and get_transcript.                  *)
(***************************************************************************)
\* the alternatives of the pattern's prefix group
Markers == <<"v=", "youtu.be/", "embed/">>

\* the class [a-zA-Z0-9_-]
IdAlphabet ==
    "abcdefghijklmnopqrstuvwxyzABCDEFGHIJKLMNOPQRSTUVWXYZ0123456789_-"
IdChars == {SubSeq(IdAlphabet, i, i) : i \in 1..Len(IdAlphabet)}

\* the pattern matches fragment t at character j with alternative k
MatchAt(t, j, k) ==
    LET start == j + Len(Markers[k])
    IN  /\ start + VideoIdLength - 1 <= Len(t)
        /\ SubSeq(t, j, start - 1) = Markers[k]
        /\ \A c \in start..(start + VideoIdLength - 1) :
              SubSeq(t, c, c) \in IdChars

\* where re.search can match in url: <<fragment, character, alternative>>
Matches(url) ==
    {m \in UNION {{<<i, j, k>> : j \in 1..Len(url[i]), k \in 1..Len(Markers)} :
                  i \in 1..Len(url)} :
        MatchAt(url[m[1]], m[2], m[3])}

\* the leftmost match, the one re.search returns
FirstMatch(url) ==
    CHOOSE m \in Matches(url) :
        \A n \in Matches(url) :
            m[1] < n[1] \/ (m[1] = n[1] /\ m[2] <= n[2])

\* extract_video_id(url): group 1 of the match, None when it raises ValueError
extract_video_id(url) ==
    IF Matches(url) = {} THEN None
    ELSE LET m == FirstMatch(url)
             start == m[2] + Len(Markers[m[3]])
         IN  <<SubSeq(url[m[1]], start, start + VideoIdLength - 1)>>

InvalidUrlMsg ==
    <<"Invalid", "YouTube", "URL", "format.", "Expected", "formats:",
      "youtube.com/watch?v=ID,", "youtu.be/ID,", "or", "youtube.com/embed/ID">>

UpperCase == "ABCDEFGHIJKLMNOPQRSTUVWXYZ"
LowerCase == "abcdefghijklmnopqrstuvwxyz"

LowerChar(c) ==
    IF \E i \in 1..Len(UpperCase) : SubSeq(UpperCase, i, i) = c
    THEN LET i == CHOOSE i \in 1..Len(UpperCase) : SubSeq(UpperCase, i, i) = c
         IN  SubSeq(LowerCase, i, i)
    ELSE c

RECURSIVE LowerFragment(_)
LowerFragment(t) ==
    IF t = "" THEN ""
    ELSE LowerChar(SubSeq(t, 1, 1)) \o LowerFragment(SubSeq(t, 2, Len(t)))

\* s.lower()
Lower(s) == [i \in 1..Len(s) |-> LowerFragment(s[i])]

\* what api.fetch can do: return entries (their texts), or raise
Fetched(entries) == [exc |-> "", msg |-> None, entries |-> entries]
FetchRaises(exc, msg) == [exc |-> exc, msg |-> msg, entries |-> <<>>]

\* the loop over the entries: the cleaned texts, joined with single spaces
RECURSIVE JoinEntries(_)
JoinEntries(entries) ==
    IF entries = <<>> THEN <<>>
    ELSE LET text == Head(entries)
             cleaned_text == Join(Split(text))
         IN  (IF Truthy(text) /\ ~IsBlank(text) /\ Truthy(cleaned_text)
              THEN cleaned_text ELSE <<>>) \o JoinEntries(Tail(entries))

TranscriptsDisabledMsg ==
    <<"Transcripts", "are", "disabled", "for", "this", "video.">>
NoTranscriptFoundMsg ==
    <<"No", "transcript", "available", "for", "this", "video.">>
VideoUnavailableMsg ==
    <<"This", "video", "is", "unavailable", "or", "has", "been", "removed.">>
IndexProcessingMsg ==
    <<"Transcript", "processing", "error:", "Index", "out", "of", "range.",
      "This", "may", "be", "a", "temporary", "issue.">>
NetworkErrorMsg ==
    <<"Network", "error", "while", "retrieving", "transcript.", "Please",
      "check", "your", "internet", "connection.">>
UnexpectedErrorMsg == <<"Unexpected", "error:", "">>

\* the string get_transcript returns for an outcome of api.fetch
get_transcript(o) ==
    IF o.exc = "" THEN Join(JoinEntries(o.entries))
    ELSE IF o.exc = "TranscriptsDisabled" THEN TranscriptsDisabledMsg
    ELSE IF o.exc = "NoTranscriptFound" THEN NoTranscriptFoundMsg
    ELSE IF o.exc = "VideoUnavailable" THEN VideoUnavailableMsg
    ELSE IF Contains(Lower(o.msg), <<"index", "out", "of", "range">>)
         THEN IndexProcessingMsg
    ELSE IF \/ Contains(Lower(o.msg), <<"network">>)
            \/ Contains(Lower(o.msg), <<"timeout">>)
         THEN NetworkErrorMsg
    ELSE Concat(UnexpectedErrorMsg, o.msg)

\* main.py:60, the test that the fetch failed
TranscriptFailed(t) ==
    \/ ~Truthy(t)
    \/ StartsWith(t, <<"No", "transcript">>)
    \/ StartsWith(t, <<"Transcript", "error">>)

(***************************************************************************)
(* The inputs the model draws from.                                        *)
(***************************************************************************)
\* the words "1" .. "n"
Words(n) == [i \in 1..n |-> ToString(i)]

\* the same words with leading, doubled and trailing spaces
Spaced(n) == <<"", "", "1", "">> \o SubSeq(Words(n), 2, n) \o <<"">>

WordCounts ==
    (1..SmallWords)
    \cup ((FallbackWords - Slack)..(FallbackWords + Slack))
    \cup ((T5Ceiling - Slack)..(T5Ceiling + Slack))

BlankTranscripts == {<<"">>, <<"", "">>, <<"", "", "">>}

Transcripts ==
    BlankTranscripts \cup {Words(n) : n \in WordCounts}
    \cup {Spaced(n) : n \in WordCounts}

Models == {Bart, T5, <<"gpt4">>, <<"BART">>, <<"">>}

LengthPairs == {<<DefaultMaxLength, DefaultMinLength>>, <<120, 30>>}

Urls ==
    {<<"https://www.youtube.com/watch?v=dQw4w9WgXcQ">>,
     <<"https://youtu.be/dQw4w9WgXcQ?t=42">>,
     <<"https://youtu.be/tooshort">>,
     <<"not", "a", "url">>}

Requests == [url : Urls, model : {Bart, T5, <<"gpt4">>}]

FetchOutcomes ==
    {Fetched(<<>>),
     Fetched(<< <<"", "">> >>),
     Fetched(<<Spaced(2), <<"">>, Words(1)>>),
     Fetched(<<Words(T5Ceiling + Slack)>>),
     FetchRaises("TranscriptsDisabled", <<"">>),
     FetchRaises("NoTranscriptFound", <<"">>),
     FetchRaises("VideoUnavailable", <<"">>),
     FetchRaises("Exception", <<"list", "index", "out", "of", "range">>),
     FetchRaises("Exception", <<"Network", "is", "unreachable">>),
     FetchRaises("Exception", <<"Read", "Timeout">>),
     FetchRaises("Exception", <<"boom">>)}

(***************************************************************************)
(* The state machine.                                                      *)
(***************************************************************************)
NoRequest == [url |-> None, model |-> None]
NotFetched == [exc |-> "", text |-> None]

Init ==
    /\ pc = "idle"
    /\ caller = "none"
    /\ request = NoRequest
    /\ video_id = None
    /\ fetched = NotFetched
    /\ transcript = None
    /\ model = None
    /\ max_length = DefaultMaxLength
    /\ min_length = DefaultMinLength
    /\ calls = <<>>
    /\ e = None
    /\ fallback_error = None
    /\ result = None
    /\ response = NoResponse
    /\ chunk_input = None
    /\ max_tokens = DefaultMaxTokens
    /\ chunks = <<>>

\* a caller other than the endpoint calls summarize_transcript
CallSummarizeTranscript ==
    /\ pc = "idle"
    /\ caller' = "direct"
    /\ \E t \in Transcripts, m \in Models, l \in LengthPairs :
          Enter("direct", t, m, l[1], l[2])
    /\ UNCHANGED <<request, video_id, fetched>>
    /\ UNCHANGED chunk_vars

\* POST /summarize arrives: summarize_video up to the call of get_transcript
SummarizeVideo ==
    /\ pc = "idle"
    /\ caller' = "endpoint"
    /\ \E r \in Requests :
          /\ request' = r
          /\ video_id' = extract_video_id(r.url)
          /\ IF extract_video_id(r.url) = None
             THEN /\ pc' = "done"
                  /\ response' = ErrorResponse(
                        Concat(<<"Invalid", "video", "URL", "format:", "">>,
                               InvalidUrlMsg))
             ELSE pc' = "fetch" /\ UNCHANGED response
    /\ UNCHANGED <<fetched, transcript, model, max_length, min_length, calls,
                   e, fallback_error, result>>
    /\ UNCHANGED chunk_vars

\* get_transcript returns, and summarize_video goes on to the summarizer
FetchTranscript ==
    /\ pc = "fetch"
    /\ \E o \in FetchOutcomes :
          /\ fetched' = [exc |-> o.exc, text |-> get_transcript(o)]
          /\ IF TranscriptFailed(get_transcript(o))
             THEN /\ pc' = "done"
                  /\ response' = ErrorResponse(
                        Concat(<<"Could", "not", "retrieve", "transcript:", "">>,
                               get_transcript(o)))
                  /\ UNCHANGED <<transcript, model, max_length, min_length,
                                 calls, e, fallback_error, result>>
             ELSE Enter("endpoint", get_transcript(o), request.model,
                        DefaultMaxLength, DefaultMinLength)
    /\ UNCHANGED <<caller, request, video_id>>
    /\ UNCHANGED chunk_vars

\* the primary invocation of the engine, and what follows its outcome
PrimaryAttempt ==
    /\ pc = "primary"
    /\ \E o \in EngineOutcomes :
          LET call == Invocation(model, PrimaryInput(transcript, model),
                                 max_length, min_length, o)
          IN  /\ calls' = Append(calls, call)
              /\ IF Truthy(call.error)
                 THEN /\ e' = ModelFailed(model, call.error)
                      /\ pc' = "fallback"
                      /\ UNCHANGED <<result, response>>
                 ELSE /\ Return(caller, model, call.summary_text)
                      /\ UNCHANGED e
    /\ UNCHANGED <<caller, request, video_id, fetched, transcript, model,
                   max_length, min_length, fallback_error>>
    /\ UNCHANGED chunk_vars

\* the fallback invocation, on the truncated transcript
FallbackAttempt ==
    /\ pc = "fallback"
    /\ \E o \in EngineOutcomes :
          LET call == Invocation(model, FallbackInput(transcript, model),
                                 max_length, min_length, o)
          IN  /\ calls' = Append(calls, call)
              /\ IF Truthy(call.error)
                 THEN /\ fallback_error' = FallbackFailed(model, call.error)
                      /\ Return(caller, model,
                                FailureMessage(e, FallbackFailed(model, call.error)))
                 ELSE /\ Return(caller, model, call.summary_text)
                      /\ UNCHANGED fallback_error
    /\ UNCHANGED <<caller, request, video_id, fetched, transcript, model,
                   max_length, min_length, e>>
    /\ UNCHANGED chunk_vars

Next ==
    \/ CallSummarizeTranscript
    \/ SummarizeVideo
    \/ FetchTranscript
    \/ PrimaryAttempt
    \/ FallbackAttempt

Spec == Init /\ [][Next]_vars

(***************************************************************************)
(* chunk_text.                                                             *)
(***************************************************************************)
\* the test with >= for >
WouldExceed_OffByOne(current_chunk, word, budget) ==
    Len(current_chunk) + Len(Split(<<word>>)) >= budget

\* len(current_chunk) + len(word.split()) > max_tokens
WouldExceed(current_chunk, word, budget) ==
    Len(current_chunk) + Len(Split(<<word>>)) > budget

\* one pass of the loop body, on the lists chunks and current_chunk
ChunkStep(st, word) ==
    IF WouldExceed(st.current_chunk, word, st.budget)
    THEN [st EXCEPT !.chunks = Append(@, Join(st.current_chunk)),
                    !.current_chunk = <<word>>]
    ELSE [st EXCEPT !.current_chunk = Append(@, word)]

\* the loop over words[lo..hi], in order, as two halves one after the other
\* (the test on st.chunks has TLC evaluate st before it descends)
RECURSIVE ChunkLoop(_, _, _, _)
ChunkLoop(words, lo, hi, st) ==
    IF lo > hi \/ Len(st.chunks) < 0 THEN st
    ELSE IF lo = hi THEN ChunkStep(st, words[lo])
    ELSE LET mid == (lo + hi) \div 2
             half == ChunkLoop(words, lo, mid, st)
         IN  ChunkLoop(words, mid + 1, hi, half)

\* chunk_text(text, max_tokens): the list of chunks, each a str
chunk_text(t, budget) ==
    LET words == Split(t)
        st == ChunkLoop(words, 1, Len(words),
                        [budget |-> budget, chunks |-> <<>>,
                         current_chunk |-> <<>>])
    IN  IF st.current_chunk # <<>>
        THEN Append(st.chunks, Join(st.current_chunk))
        ELSE st.chunks

ChunkWordCounts ==
    (1..MaxChunkWords)
    \cup ((DefaultMaxTokens - Slack)..(DefaultMaxTokens + Slack))
    \cup ((2 * DefaultMaxTokens - Slack)..(2 * DefaultMaxTokens + Slack))

ChunkTexts ==
    {<<"">>, <<"", "">>} \cup {Words(n) : n \in ChunkWordCounts}
    \cup {Spaced(n) : n \in 1..MaxChunkWords}

Budgets == ((0 - 1)..MaxBudget) \cup {DefaultMaxTokens}

\* a caller calls chunk_text
CallChunkText ==
    /\ pc = "idle"
    /\ pc' = "done"
    /\ caller' = "chunk_text"
    /\ \E t \in ChunkTexts, b \in Budgets :
          /\ chunk_input' = t
          /\ max_tokens' = b
          /\ chunks' = chunk_text(t, b)
    /\ UNCHANGED <<request, video_id, fetched, transcript, model, max_length,
                   min_length, calls, e, fallback_error, result, response>>

ChunkSpec == Init /\ [][CallChunkText]_vars

(***************************************************************************)
(* The claims.                                                             *)
(***************************************************************************)
KnownModels == {Bart, T5}

\* summarize_transcript has been called and has returned
Returned == pc = "done" /\ transcript # None

\* an attempt failed: safe_summarize reported an error
Failed(call) == Truthy(call.error)

BothFailed == Len(calls) = 2 /\ Failed(calls[1]) /\ Failed(calls[2])

\* C1: for a non-blank transcript and a known selector, whatever the engine
\* returns on the primary and the fallback call, summarize_transcript returns
\* a non-empty string, never the empty string and never None.
C1_NeverEmptyOrMissing ==
    (Returned /\ ~IsBlank(transcript) /\ model \in KnownModels)
        => Truthy(result)

\* C2: for a non-blank transcript and a known selector, when the engine
\* raised a fault on the primary call, the fallback call or both, the call
\* still returns a string, and when both attempts failed that string begins
\* with 'Failed to generate summary after all attempts:'.
C2_FaultsEndInAString ==
    (/\ Returned /\ ~IsBlank(transcript) /\ model \in KnownModels
     /\ \E i \in 1..Len(calls) : calls[i].outcome.raises)
        => /\ result # None
           /\ BothFailed =>
                StartsWith(result, <<"Failed", "to", "generate", "summary",
                                     "after", "all", "attempts:">>)

\* the first 500 words of the transcript, prefixed with 'summarize: ' for t5
First500Words ==
    LET words == Split(transcript)
        first == IF Len(words) > FallbackWords
                 THEN SubSeq(words, 1, FallbackWords) ELSE words
    IN  IF model = T5 THEN <<"summarize:">> \o first ELSE first

\* C3: a failed primary invocation is followed by exactly one further
\* invocation, of the same engine, on the first 500 words of the transcript
\* (prefixed with 'summarize: ' for t5) and with the same max_length and
\* min_length, whose summary is returned when it succeeds; a call makes at
\* most two invocations and none after a primary invocation that succeeded.
C3_ExactlyOneFallback ==
    /\ Len(calls) <= 2
    /\ pc = "fallback" <=> (Len(calls) = 1 /\ Failed(calls[1]))
    /\ (Returned /\ Len(calls) >= 1 /\ Failed(calls[1])) => Len(calls) = 2
    /\ Len(calls) = 2 =>
          /\ Failed(calls[1])
          /\ calls[2].engine = calls[1].engine
          /\ calls[2].input_text = First500Words
          /\ calls[2].max_length = calls[1].max_length
          /\ calls[2].min_length = calls[1].min_length
          /\ calls[2].max_length = max_length
          /\ calls[2].min_length = min_length
          /\ (Returned /\ ~Failed(calls[2])) => result = calls[2].summary_text
    /\ (Len(calls) >= 1 /\ ~Failed(calls[1])) =>
          Len(calls) = 1 /\ Returned /\ result = calls[1].summary_text

\* a t5 call on more than 500 words: the primary failed, the fallback succeeded
C3_Witness ==
    /\ Returned /\ model = T5 /\ Len(calls) = 2
    /\ Len(Split(transcript)) > FallbackWords
    /\ max_length # DefaultMaxLength
    /\ ~Failed(calls[2]) /\ result = <<"A", "short", "summary.">>

\* C4: when both attempts fail, the returned failure string carries the
\* primary attempt's failure (its exception and its reason) and not the
\* fallback's: not the fallback's exception, and not the fallback's reason
\* unless that text is part of the primary's reason itself.
C4_PrimaryFailureSurfaced ==
    (Returned /\ BothFailed)
        => /\ Contains(result, e)
           /\ Contains(result, calls[1].error)
           /\ ~Contains(result, fallback_error)
           /\ ~Contains(result, <<"fallback", "failed:">>)
           /\ ~Contains(calls[1].error, calls[2].error)
                 => ~Contains(result, calls[2].error)

\* both attempts failed, for different reasons
C4_Witness ==
    /\ Returned /\ BothFailed
    /\ calls[1].outcome.raises /\ ~calls[2].outcome.raises
    /\ ~Contains(calls[1].error, calls[2].error)

\* C5: for an unrecognized selector and a non-blank transcript,
\* summarize_transcript returns 'Unknown model: ' followed by the selector
\* and invokes no engine, neither the one asked for nor a default.
C5_UnknownModelNoEngine ==
    (transcript # None /\ ~IsBlank(transcript) /\ model \notin KnownModels)
        => /\ Returned
           /\ result = Concat(<<"Unknown", "model:", "">>, model)
           /\ Contains(result, model)
           /\ calls = <<>>

\* the selector 'gpt4' with a transcript of words
C5_Witness ==
    /\ Returned /\ model = <<"gpt4">> /\ Len(Split(transcript)) > 0
    /\ result = <<"Unknown", "model:", "gpt4">>

\* C6: for an empty or whitespace-only transcript and any selector,
\* summarize_transcript returns exactly 'No transcript available to
\* summarize.' and invokes no engine.
C6_BlankTranscript ==
    (transcript # None /\ Split(transcript) = <<>>)
        => /\ Returned
           /\ result = <<"No", "transcript", "available", "to", "summarize.">>
           /\ calls = <<>>

\* a transcript of two spaces with an unrecognized selector has returned
C6_Witness ==
    /\ Returned /\ transcript = <<"", "", "">>
    /\ model = <<"gpt4">>
    /\ result = NoTranscriptMsg

\* C7: the primary t5 input is 'summarize: ' followed by the first 1500 words
\* of the transcript when it has more than 1500 words and by all its words
\* otherwise; the primary bart input is the whole transcript, unprefixed.
C7_PrimaryInputCeiling ==
    Len(calls) >= 1 =>
        LET words == Split(transcript)
            text == calls[1].input_text
        IN  /\ model = Bart => text = transcript
            /\ model = T5 =>
                  /\ StartsWith(text, <<"summarize:", "">>)
                  /\ Len(words) > T5Ceiling =>
                        text = <<"summarize:">> \o SubSeq(words, 1, T5Ceiling)
                  /\ Len(words) <= T5Ceiling =>
                        /\ Split(text) = <<"summarize:">> \o words
                        /\ text = Concat(<<"summarize:", "">>, transcript)

\* a t5 call on more than 1500 words has made its primary invocation
C7_Witness ==
    /\ model = T5 /\ Len(calls) >= 1
    /\ Len(Split(transcript)) > T5Ceiling
    /\ Len(Split(calls[1].input_text)) = T5Ceiling + 1

\* api.fetch raised: the transcript was not fetched
FetchFailed == fetched.exc # ""

\* C8: whenever the transcript fetch fails, summarize_video answers with
\* {error: ...} and never passes get_transcript's failure string to
\* summarize_transcript.
C8_FetchFailureIsReported ==
    FetchFailed
        => /\ transcript = None
           /\ calls = <<>>
           /\ pc = "done" /\ response.error # None /\ response.summary = None

\* C9: a request with an unrecognized selector whose transcript was fetched
\* is answered with {error: ...}, never with {summary: ..., model_used: ...}.
C9_UnknownModelIsAnError ==
    (/\ pc = "done" /\ caller = "endpoint"
     /\ fetched.text # None /\ ~FetchFailed /\ Truthy(fetched.text)
     /\ request.model \notin KnownModels)
        => response.error # None /\ response.summary = None

\* C10: whatever the engine does, the pair safe_summarize returns has
\* exactly one component that is not None.
C10_ExactlyOnePopulated ==
    \A i \in 1..Len(calls) :
        (calls[i].summary_text = None) # (calls[i].error = None)

\* chunk_text has been called and has returned
ChunkReturned == pc = "done" /\ caller = "chunk_text"

\* the words of chunks[lo..hi], in order
RECURSIVE ChunkWords(_, _, _)
ChunkWords(cs, lo, hi) ==
    IF lo > hi THEN <<>>
    ELSE IF lo = hi THEN Split(cs[lo])
    ELSE ChunkWords(cs, lo, (lo + hi) \div 2)
         \o ChunkWords(cs, (lo + hi) \div 2 + 1, hi)

\* C11: for a text of W >= 1 words and a budget B >= 1, chunk_text returns
\* exactly ceil(W/B) chunks of at most B words each, whose words in order
\* are the words of the text.
C11_ChunkCountAndContent ==
    LET W == Len(Split(chunk_input))
    IN  (ChunkReturned /\ W >= 1 /\ max_tokens >= 1)
            => /\ Len(chunks) = (W + max_tokens - 1) \div max_tokens
               /\ \A k \in 1..Len(chunks) :
                     /\ Len(Split(chunks[k])) <= max_tokens
                     /\ Len(Split(chunks[k])) = Len(chunks[k])
               /\ ChunkWords(chunks, 1, Len(chunks)) = Split(chunk_input)

\* a text of two budgets and a word, chunked with the default budget
C11_Witness ==
    /\ ChunkReturned /\ max_tokens = DefaultMaxTokens
    /\ Len(Split(chunk_input)) = 2 * DefaultMaxTokens + 1
    /\ Len(chunks) = 3
    /\ chunks[3] = <<ToString(2 * DefaultMaxTokens + 1)>>

\* what safe_summarize made of an engine outcome, read off the pair
ClassReturned(call) ==
    IF call.error = None THEN "success"
    ELSE IF call.error = EmptyResultMsg THEN "empty result"
    ELSE IF StartsWith(call.error, <<"Model", "returned", "invalid", "result",
                                     "structure:">>)
         THEN "malformed result shape"
    ELSE IF call.error = IndexRangeMsg THEN "index range"
    ELSE IF \/ StartsWith(call.error, <<"Index", "error:">>)
            \/ StartsWith(call.error, <<"Model", "error:">>)
         THEN "other engine failure"
    ELSE "none"

\* the class the outcome belongs to
ClassExpected(o) ==
    IF o.raises
    THEN IF o.exc = "IndexError" /\ Contains(o.msg, IndexOutOfRangeInSelf)
         THEN "index range" ELSE "other engine failure"
    ELSE IF o.type = "NoneType" \/ o.len = 0 THEN "empty result"
    ELSE IF o.type # "list" \/ o.elem # "dict" \/ "summary_text" \notin o.keys
         THEN "malformed result shape"
    ELSE "success"

\* C12: safe_summarize puts every engine outcome in the one class it belongs
\* to: empty or missing result, malformed result shape (a non-empty value
\* that is no list, or whose first element is no dict with 'summary_text'),
\* index-range fault, other fault, success.
C12_ClassMatchesOutcome ==
    \A i \in 1..Len(calls) :
        ClassReturned(calls[i]) = ClassExpected(calls[i].outcome)

\* C13: chunk_text never returns an empty chunk, whatever the budget: for a
\* budget below 1 the chunks are the words of the text, one each, in order,
\* and for a text without words there is no chunk.
C13_NoEmptyChunk ==
    LET words == Split(chunk_input)
    IN  ChunkReturned
            => /\ \A k \in 1..Len(chunks) : Len(Split(chunks[k])) >= 1
               /\ max_tokens < 1 =>
                     chunks = [k \in 1..Len(words) |-> <<words[k]>>]
               /\ words = <<>> => chunks = <<>>

====
